---- MODULE Spec2Model ----
(***************************************************************************)
(* Model of src/app.py: the Product hierarchy (Electronics, Grocery,       *)
(* Clothing), the Inventory store and the Streamlit handlers that call it. *)
(*                                                                         *)
(* Representation.                                                         *)
(*  - A Product object is a record: cls is the object's class name, the    *)
(*    other fields are its attributes (the leading underscore of the       *)
(*    Python attribute names is dropped).                                  *)
(*  - Inventory._products is a Python dict, which iterates in insertion    *)
(*    order: it is a sequence of the stored products, the key of an entry  *)
(*    being the product_id of the product stored there (every store in the *)
(*    source is self._products[p._product_id] = p).                        *)
(*  - An expiry date "YYYY-MM-DD" is the number of its calendar day; a     *)
(*    datetime is [day, time], time 0 being midnight 00:00:00.000000.      *)
(*  - inventory.json is [kind, text]: missing, garbage (not JSON) or json, *)
(*    text then being the JSON array: a sequence of objects, each the      *)
(*    sequence of its <<key, value>> members.                              *)
(*  - A call's outcome is [products, err]: the dict afterwards and the     *)
(*    exception that left the call ("None" when it returned).              *)
(***************************************************************************)
EXTENDS Integers, Sequences, FiniteSets

VARIABLES
    products,   \* st.session_state.inventory._products
    file,       \* the content of inventory.json
    session,    \* "none" before the script's first run, then "active"
    last        \* history: the last call, its arguments and its outcome

vars == <<products, file, session, last>>

----------------------------------------------------------------------------
(* Bounds of the model *)

\* Stock never exceeds MaxQty (restock and a negative sale are cut off there).
MaxQty == 1
\* Expiry dates are the days 1..MaxDay; today is one of 1..MaxDay + 1.
MaxDay == 1
\* Times of day are 0..MaxTime, 0 being midnight exactly.
MaxTime == 1

Ids == {"P1", "P2"}
Days == 1..MaxDay
Quantities == 0..MaxQty
\* sell_product is called with any integer: below 0 and above every stock too.
SellQuantities == (0 - 1)..(MaxQty + 1)
\* What datetime.today() may return.
Instants == {[day |-> d, time |-> t] : d \in 1..(MaxDay + 1), t \in 0..MaxTime}

----------------------------------------------------------------------------
(* Exceptions *)

NoError == "None"
NotEnoughStock == "Exception: Not enough stock to sell"
DuplicateProductId == "Exception: Duplicate product ID"
KeyError == "KeyError"
FileNotFoundError == "FileNotFoundError"
JSONDecodeError == "JSONDecodeError"

----------------------------------------------------------------------------
(* Product and its subclasses *)

Electronics(product_id, name, price, quantity_in_stock, brand, warranty_years) ==
    [cls |-> "Electronics", product_id |-> product_id, name |-> name,
     price |-> price, quantity_in_stock |-> quantity_in_stock,
     brand |-> brand, warranty_years |-> warranty_years]

Grocery(product_id, name, price, quantity_in_stock, expiry_date) ==
    [cls |-> "Grocery", product_id |-> product_id, name |-> name,
     price |-> price, quantity_in_stock |-> quantity_in_stock,
     expiry_date |-> expiry_date]

Clothing(product_id, name, price, quantity_in_stock, size, material) ==
    [cls |-> "Clothing", product_id |-> product_id, name |-> name,
     price |-> price, quantity_in_stock |-> quantity_in_stock,
     size |-> size, material |-> material]

\* Product.restock that sets the stock where it should add to it
restock_assigning(self, amount) ==
    [self EXCEPT !.quantity_in_stock = amount]

\* Product.restock
restock(self, amount) ==
    [self EXCEPT !.quantity_in_stock = @ + amount]

\* Product.sell without its check of the stock
sell_unchecked(self, quantity) ==
    [self |-> [self EXCEPT !.quantity_in_stock = @ - quantity],
     err |-> NoError]

\* Product.sell with >= where the source has >
sell_refusing_last_unit(self, quantity) ==
    IF quantity >= self.quantity_in_stock
    THEN [self |-> self, err |-> NotEnoughStock]
    ELSE [self |-> [self EXCEPT !.quantity_in_stock = @ - quantity],
          err |-> NoError]

\* Product.sell: [self, err]
sell(self, quantity) ==
    IF quantity > self.quantity_in_stock
    THEN [self |-> self, err |-> NotEnoughStock]
    ELSE [self |-> [self EXCEPT !.quantity_in_stock = @ - quantity],
          err |-> NoError]

\* Product.to_dict that names the base class where it should name the
\* object's class
Product_to_dict_base_class(self) ==
    [type |-> "Product", product_id |-> self.product_id, name |-> self.name,
     price |-> self.price, quantity_in_stock |-> self.quantity_in_stock]

\* Product.to_dict
Product_to_dict(self) ==
    [type |-> self.cls, product_id |-> self.product_id, name |-> self.name,
     price |-> self.price, quantity_in_stock |-> self.quantity_in_stock]

\* dict.update(other): other's keys added, its values replacing
dict_update(data, other) ==
    [k \in DOMAIN data \cup DOMAIN other |->
        IF k \in DOMAIN other THEN other[k] ELSE data[k]]

\* to_dict of the object's class
to_dict(self) ==
    CASE self.cls = "Electronics" ->
            dict_update(Product_to_dict(self),
                [brand |-> self.brand, warranty_years |-> self.warranty_years])
      [] self.cls = "Grocery" ->
            dict_update(Product_to_dict(self),
                [expiry_date |-> self.expiry_date])
      [] self.cls = "Clothing" ->
            dict_update(Product_to_dict(self),
                [size |-> self.size, material |-> self.material])

\* datetime.strptime(expiry_date, "%Y-%m-%d"): midnight of that day
strptime(expiry_date) == [day |-> expiry_date, time |-> 0]

\* datetime < datetime
datetime_lt(a, b) ==
    \/ a.day < b.day
    \/ a.day = b.day /\ a.time < b.time

\* Grocery.is_expired, today being datetime.today()
is_expired(self, today) == datetime_lt(strptime(self.expiry_date), today)

----------------------------------------------------------------------------
(* The dict Inventory._products *)

dict_keys(d) == {d[i].product_id : i \in 1..Len(d)}

dict_index(d, key) == CHOOSE i \in 1..Len(d) : d[i].product_id = key

\* d[key]
dict_getitem(d, key) == d[dict_index(d, key)]

\* d.setdefault(key, value): an existing key keeps its value
dict_setdefault(d, key, value) ==
    IF key \in dict_keys(d) THEN d ELSE Append(d, value)

\* d[key] = value: an existing key keeps its place, a new key goes last
dict_setitem(d, key, value) ==
    IF key \in dict_keys(d)
    THEN [d EXCEPT ![dict_index(d, key)] = value]
    ELSE Append(d, value)

\* del d[key]
dict_delitem(d, key) ==
    LET i == dict_index(d, key)
    IN  SubSeq(d, 1, i - 1) \o SubSeq(d, i + 1, Len(d))

----------------------------------------------------------------------------
(* Inventory *)

\* Inventory.add_product without its check of the id
add_product_overwriting(d, product) ==
    [products |-> dict_setitem(d, product.product_id, product),
     err |-> NoError]

\* Inventory.add_product
add_product(d, product) ==
    IF product.product_id \in dict_keys(d)
    THEN [products |-> d, err |-> DuplicateProductId]
    ELSE [products |-> dict_setitem(d, product.product_id, product),
          err |-> NoError]

\* Inventory.remove_product
remove_product(d, product_id) ==
    IF product_id \in dict_keys(d)
    THEN [products |-> dict_delitem(d, product_id), err |-> NoError]
    ELSE [products |-> d, err |-> NoError]

\* Inventory.sell_product: the stored object is changed in place
sell_product(d, product_id, quantity) ==
    IF product_id \notin dict_keys(d)
    THEN [products |-> d, err |-> KeyError]
    ELSE LET r == sell(dict_getitem(d, product_id), quantity)
         IN  [products |-> [d EXCEPT ![dict_index(d, product_id)] = r.self],
              err |-> r.err]

\* Inventory.restock_product that looks the id up as remove_product does
restock_product_lenient(d, product_id, quantity) ==
    IF product_id \notin dict_keys(d)
    THEN [products |-> d, err |-> NoError]
    ELSE [products |->
             [d EXCEPT ![dict_index(d, product_id)] =
                 restock(dict_getitem(d, product_id), quantity)],
          err |-> NoError]

\* Inventory.restock_product: the stored object is changed in place
restock_product(d, product_id, quantity) ==
    IF product_id \notin dict_keys(d)
    THEN [products |-> d, err |-> KeyError]
    ELSE [products |->
             [d EXCEPT ![dict_index(d, product_id)] =
                 restock(dict_getitem(d, product_id), quantity)],
          err |-> NoError]

\* the list expired without its call of is_expired
expired_ids_every_grocery(d, today) ==
    LET hit == SelectSeq(d, LAMBDA p : p.cls = "Grocery")
    IN  [i \in 1..Len(hit) |-> hit[i].product_id]

\* the list expired of remove_expired_products
expired_ids(d, today) ==
    LET hit == SelectSeq(d, LAMBDA p : p.cls = "Grocery" /\ is_expired(p, today))
    IN  [i \in 1..Len(hit) |-> hit[i].product_id]

\* for pid in expired: del self._products[pid]
RECURSIVE delete_each(_, _)
delete_each(d, pids) ==
    IF pids = <<>> THEN d
    ELSE delete_each(dict_delitem(d, Head(pids)), Tail(pids))

\* Inventory.remove_expired_products
remove_expired_products(d, today) ==
    [products |-> delete_each(d, expired_ids(d, today)), err |-> NoError]

----------------------------------------------------------------------------
(* json and inventory.json *)

\* The keys of a record, in the order to_dict inserts them.
KeyOrder ==
    <<"type", "product_id", "name", "price", "quantity_in_stock",
      "brand", "warranty_years", "expiry_date", "size", "material">>

\* A dict as a JSON object: its members in order.
json_dump_object(obj) ==
    LET ks == SelectSeq(KeyOrder, LAMBDA k : k \in DOMAIN obj)
    IN  [i \in 1..Len(ks) |-> <<ks[i], obj[ks[i]]>>]

\* json.dump of a list of dicts
json_dump(data) == [i \in 1..Len(data) |-> json_dump_object(data[i])]

\* A JSON object as a dict: a key that occurs twice takes its last value.
json_load_object(members) ==
    [k \in {members[i][1] : i \in 1..Len(members)} |->
        LET i == CHOOSE i \in 1..Len(members) :
                    /\ members[i][1] = k
                    /\ \A j \in (i + 1)..Len(members) : members[j][1] # k
        IN  members[i][2]]

\* json.load of a JSON array of objects
json_load(text) == [i \in 1..Len(text) |-> json_load_object(text[i])]

NoFile == [kind |-> "missing", text |-> <<>>]
Garbage == [kind |-> "garbage", text |-> <<>>]

\* Inventory.save_to_file: what inventory.json holds afterwards
save_to_file(d) ==
    [kind |-> "json", text |-> json_dump([i \in 1..Len(d) |-> to_dict(d[i])])]

\* The keys the branch of load_from_file for type ptype reads from the item.
keys_read(ptype) ==
    {"product_id", "name", "price", "quantity_in_stock"} \cup
    CASE ptype = "Electronics" -> {"brand", "warranty_years"}
      [] ptype = "Grocery" -> {"expiry_date"}
      [] ptype = "Clothing" -> {"size", "material"}

\* The object the branch of load_from_file for item["type"] constructs.
construct(item) ==
    CASE item.type = "Electronics" ->
            Electronics(item.product_id, item.name, item.price,
                        item.quantity_in_stock, item.brand, item.warranty_years)
      [] item.type = "Grocery" ->
            Grocery(item.product_id, item.name, item.price,
                    item.quantity_in_stock, item.expiry_date)
      [] item.type = "Clothing" ->
            Clothing(item.product_id, item.name, item.price,
                     item.quantity_in_stock, item.size, item.material)

\* for item in data: ... of load_from_file; a missing key raises KeyError
\* and leaves the loop with the items before it stored.
RECURSIVE load_items(_, _)
load_items(d, data) ==
    IF data = <<>> THEN [products |-> d, err |-> NoError]
    ELSE LET item == Head(data)
         IN  IF "type" \notin DOMAIN item
             THEN [products |-> d, err |-> KeyError]
             ELSE IF item.type \notin {"Electronics", "Grocery", "Clothing"}
             THEN load_items(d, Tail(data))
             ELSE IF ~(keys_read(item.type) \subseteq DOMAIN item)
             THEN [products |-> d, err |-> KeyError]
             ELSE load_items(dict_setitem(d, item.product_id, construct(item)),
                             Tail(data))

\* Inventory.load_from_file, f being the content of the file
load_from_file(d, f) ==
    CASE f.kind = "missing" -> [products |-> d, err |-> FileNotFoundError]
      [] f.kind = "garbage" -> [products |-> d, err |-> JSONDecodeError]
      [] f.kind = "json" -> load_items(d, json_load(f.text))

----------------------------------------------------------------------------
(* The inputs of the handlers *)

\* What the Add Product page constructs from its widgets.
NewElectronics ==
    {Electronics(id, "Phone", 500, q, "Acme", 2) : id \in Ids, q \in Quantities}

NewGrocery ==
    {Grocery(id, "Milk", 2, q, day) : id \in Ids, q \in Quantities, day \in Days}

NewClothing ==
    {Clothing(id, "Shirt", 20, q, "M", "Cotton") : id \in Ids, q \in Quantities}

\* A record of a type load_from_file does not know.
ToyRecord ==
    [type |-> "Toy", product_id |-> "P1", name |-> "Robot",
     price |-> 9, quantity_in_stock |-> 1]

\* A Grocery record without its expiry_date.
GroceryRecordNoExpiry ==
    [type |-> "Grocery", product_id |-> "P1", name |-> "Milk",
     price |-> 2, quantity_in_stock |-> 1]

\* Two records of one product_id with a record of an unknown type between.
DocumentMixed ==
    << to_dict(Electronics("P1", "Phone", 500, 0, "Acme", 2)),
       ToyRecord,
       to_dict(Grocery("P1", "Milk", 2, 1, 1)) >>

\* A well-formed record, then one that lacks a key.
DocumentTruncated ==
    << to_dict(Clothing("P2", "Shirt", 20, 1, "M", "Cotton")),
       GroceryRecordNoExpiry >>

\* What a program other than this one may have left in inventory.json.
ExternalFiles ==
    {NoFile, Garbage} \cup
    {[kind |-> "json", text |-> json_dump(doc)] :
        doc \in {DocumentMixed, DocumentTruncated}}

----------------------------------------------------------------------------
(* The history variable *)

\* The stock of the product stored under id, -1 when there is none.
stock_of(d, id) ==
    IF id \in dict_keys(d) THEN dict_getitem(d, id).quantity_in_stock ELSE -1

NoInstant == [day |-> 0, time |-> 0]

\* A call on the dict d.  op: the operation; id, qty: its arguments (or "-",
\* 0); err: the exception that left it; today: what datetime.today() returned
\* to it; size: len(d) before it; stock: the stock of product id before it;
\* undo: on a restock_product that directly follows a successful
\* sell_product of the same id and quantity, the stock before that sale,
\* and -1 on every other call.
Call(d, op, id, qty, err, today, undo) ==
    [op |-> op, id |-> id, qty |-> qty, err |-> err, today |-> today,
     size |-> Len(d), stock |-> stock_of(d, id), undo |-> undo]

\* The history is kept unless the initial state switches it off.
Record(call) == last' = IF last.op = "off" THEN last ELSE call

----------------------------------------------------------------------------
(* The state machine *)

Init ==
    /\ products = <<>>
    /\ file = NoFile
    /\ session = "none"
    /\ last = Call(<<>>, "init", "-", 0, NoError, NoInstant, -1)

\* inventory.json may already be there, written by anyone.
InitExternal ==
    /\ products = <<>>
    /\ file \in ExternalFiles
    /\ session = "none"
    /\ last = Call(<<>>, "init", "-", 0, NoError, NoInstant, -1)

\* No history: the dict, the file and the session are the whole state.
InitPersist ==
    /\ products = <<>>
    /\ file = NoFile
    /\ session = "none"
    /\ last = Call(<<>>, "off", "-", 0, NoError, NoInstant, -1)

\* A session's first run of the script: a new Inventory, then load_from_file
\* inside try/except, whatever it raises being dropped.
SessionStart ==
    /\ LET r == load_from_file(<<>>, file)
       IN  /\ products' = r.products
           /\ Record(Call(<<>>, "start", "-", 0, r.err, NoInstant, -1))
    /\ session' = "active"
    /\ UNCHANGED file

AddButton(product) ==
    /\ session = "active"
    /\ LET r == add_product(products, product)
       IN  /\ products' = r.products
           /\ Record(Call(products, "add", product.product_id,
                          product.quantity_in_stock, r.err, NoInstant, -1))
    /\ UNCHANGED <<file, session>>

\* button "Add Electronics"
AddElectronics == \E product \in NewElectronics : AddButton(product)

\* button "Add Grocery"
AddGrocery == \E product \in NewGrocery : AddButton(product)

\* button "Add Clothing"
AddClothing == \E product \in NewClothing : AddButton(product)

\* Inventory.remove_product, called on the store
RemoveProduct ==
    \E id \in Ids :
        /\ session = "active"
        /\ LET r == remove_product(products, id)
           IN  /\ products' = r.products
               /\ Record(Call(products, "remove", id, 0, r.err, NoInstant, -1))
        /\ UNCHANGED <<file, session>>

\* button "Sell"
SellProduct ==
    \E id \in Ids, quantity \in SellQuantities :
        /\ session = "active"
        /\ LET r == sell_product(products, id, quantity)
           IN  \* the bound of the model: no stock above MaxQty
               /\ \A i \in 1..Len(r.products) :
                     r.products[i].quantity_in_stock <= MaxQty
               /\ products' = r.products
               /\ Record(Call(products, "sell", id, quantity, r.err, NoInstant, -1))
        /\ UNCHANGED <<file, session>>

\* button "Restock"
RestockProduct ==
    \E id \in Ids, quantity \in Quantities :
        /\ session = "active"
        /\ LET r == restock_product(products, id, quantity)
           IN  \* the bound of the model: no stock above MaxQty
               /\ \A i \in 1..Len(r.products) :
                     r.products[i].quantity_in_stock <= MaxQty
               /\ products' = r.products
               /\ Record(Call(products, "restock", id, quantity, r.err, NoInstant,
                              IF /\ last.op = "sell"
                                 /\ last.err = NoError
                                 /\ last.id = id
                                 /\ last.qty = quantity
                              THEN last.stock ELSE -1))
        /\ UNCHANGED <<file, session>>

\* button "Save to inventory.json"
Save ==
    /\ session = "active"
    /\ file' = save_to_file(products)
    /\ Record(Call(products, "save", "-", 0, NoError, NoInstant, -1))
    /\ UNCHANGED <<products, session>>

\* button "Load from inventory.json"
Load ==
    /\ session = "active"
    /\ LET r == load_from_file(products, file)
       IN  /\ products' = r.products
           /\ Record(Call(products, "load", "-", 0, r.err, NoInstant, -1))
    /\ UNCHANGED <<file, session>>

\* button "Remove Expired Grocery Items"
RemoveExpired ==
    \E today \in Instants :
        /\ session = "active"
        /\ LET r == remove_expired_products(products, today)
           IN  /\ products' = r.products
               /\ Record(Call(products, "remove_expired", "-", 0, r.err, today, -1))
        /\ UNCHANGED <<file, session>>

\* A session in which nothing is saved.
NextNoSave ==
    \/ SessionStart
    \/ AddElectronics
    \/ AddGrocery
    \/ AddClothing
    \/ RemoveProduct
    \/ SellProduct
    \/ RestockProduct
    \/ Load
    \/ RemoveExpired

Next ==
    \/ NextNoSave
    \/ Save

\* inventory.json is missing and never written: every call with its history.
Spec == Init /\ [][NextNoSave]_vars

\* inventory.json was written by another program and is only read.
SpecExternal == InitExternal /\ [][NextNoSave]_vars

\* Every operation, inventory.json being written by save_to_file only.
SpecPersist == InitPersist /\ [][Next]_vars

----------------------------------------------------------------------------
(* Properties *)

\* C1: in every state reached by add_product (stock >= 0), sell_product with
\* any integer, restock_product with an amount >= 0, remove_product,
\* remove_expired_products, save_to_file and load_from_file of a file that
\* save_to_file wrote, every held product has quantity_in_stock >= 0.
C1_StockNeverNegative ==
    \A i \in 1..Len(products) : products[i].quantity_in_stock >= 0

\* A product is out of stock that inventory.json, saved earlier, has in stock.
C1_Witness ==
    /\ file.kind = "json"
    /\ \E i \in 1..Len(products), j \in 1..Len(file.text) :
          LET item == json_load_object(file.text[j])
          IN  /\ item.product_id = products[i].product_id
              /\ item.type = products[i].cls
              /\ item.quantity_in_stock > 0
              /\ products[i].quantity_in_stock = 0

\* C2: for a held product with stock s, sell_product with q > s raises "Not
\* enough stock to sell" and leaves every product as it was; with q <= s it
\* returns and leaves that product's stock at s - q, the others as they were.
C2_SellChecksStock ==
    [][ last'.op = "sell" /\ last'.id \in dict_keys(products) =>
          LET i == dict_index(products, last'.id)
              s == products[i].quantity_in_stock
              q == last'.qty
          IN  IF q > s
              THEN /\ last'.err = NotEnoughStock
                   /\ products' = products
              ELSE /\ last'.err = NoError
                   /\ products' =
                        [products EXCEPT ![i].quantity_in_stock = s - q]
      ]_vars

\* A sale of one more than the stock was refused, another product being held.
C2_Witness ==
    /\ last.op = "sell"
    /\ last.err = NotEnoughStock
    /\ last.id \in dict_keys(products)
    /\ last.qty = dict_getitem(products, last.id).quantity_in_stock + 1
    /\ Len(products) = 2

\* C3: add_product of a product whose id is a key of the dict raises
\* "Duplicate product ID" and leaves the dict as it was; with a new id it
\* stores the product under that id, after the products already held.
C3_AddRejectsDuplicateId ==
    [][ last'.op = "add" =>
          IF last'.id \in dict_keys(products)
          THEN /\ last'.err = DuplicateProductId
               /\ products' = products
          ELSE /\ last'.err = NoError
               /\ Len(products') = Len(products) + 1
               /\ SubSeq(products', 1, Len(products)) = products
               /\ products'[Len(products')].product_id = last'.id
               /\ products'[Len(products')].quantity_in_stock = last'.qty
      ]_vars

\* An add was refused: the dict has the size it had, and the product under
\* that id differs from the one offered.
C3_Witness ==
    /\ last.op = "add"
    /\ last.err = DuplicateProductId
    /\ last.size = Len(products)
    /\ last.id \in dict_keys(products)
    /\ dict_getitem(products, last.id).quantity_in_stock # last.qty

\* C4: sell_product and restock_product with an id that is no key of the dict
\* raise KeyError, which is neither of the other two errors, and leave the
\* dict as it was.
C4_UnknownIdRaises ==
    [][ last'.op \in {"sell", "restock"} /\ last'.id \notin dict_keys(products) =>
          /\ last'.err = KeyError
          /\ last'.err \notin {NotEnoughStock, DuplicateProductId, NoError}
          /\ products' = products
      ]_vars

\* A restock of an id not held was refused, another product being held.
C4_Witness ==
    /\ last.op = "restock"
    /\ last.err = KeyError
    /\ last.id \notin dict_keys(products)
    /\ last.qty > 0
    /\ Len(products) = 1

\* C10: for a held product with stock s and 0 <= q <= s, sell_product(id, q)
\* then restock_product(id, q) leaves the dict as it was; and a
\* restock_product that directly followed such a sale has left the stock
\* that the sale found.
C10_SellThenRestockRestores ==
    /\ \A i \in 1..Len(products) :
          \A q \in 0..products[i].quantity_in_stock :
             LET id == products[i].product_id
                 sold == sell_product(products, id, q)
                 back == restock_product(sold.products, id, q)
             IN  /\ sold.err = NoError
                 /\ back.err = NoError
                 /\ back.products = products
    /\ last.op = "restock" /\ last.undo >= 0 /\ last.qty >= 0 =>
          /\ last.err = NoError
          /\ last.id \in dict_keys(products)
          /\ dict_getitem(products, last.id).quantity_in_stock = last.undo

\* A restock directly after the sale of as many units, another product held.
C10_Witness ==
    /\ last.op = "restock"
    /\ last.undo > 0
    /\ last.qty > 0
    /\ last.err = NoError
    /\ Len(products) = 2

\* C5: when load_from_file raises, the dict is what it was before the call;
\* when the load of the session start raises, the dict is empty.
C5_FailedLoadChangesNothing ==
    [][ /\ last'.op = "load" /\ last'.err # NoError => products' = products
        /\ last'.op = "start" /\ last'.err # NoError => products' = <<>>
      ]_vars

\* save_to_file of the dict d, then load_from_file into a new Inventory.
saved_and_loaded(d) == load_from_file(<<>>, save_to_file(d))

\* C6: for every dict reached, save_to_file then load_from_file into a new
\* Inventory gives the same products with the same fields in the same order;
\* and the step that writes inventory.json leaves the dict it saves as it
\* was, the file then loading as that dict.
C6_SaveLoadRoundTrip ==
    /\ [](saved_and_loaded(products) = [products |-> products, err |-> NoError])
    /\ [][ file' # file =>
              /\ products' = products
              /\ load_from_file(<<>>, file') =
                    [products |-> products, err |-> NoError]
         ]_vars

\* inventory.json holds what save_to_file writes of the two products held,
\* a Grocery and a product of another class.
C6_Witness ==
    /\ session = "active"
    /\ Len(products) = 2
    /\ file = save_to_file(products)
    /\ \E i, j \in 1..2 :
          products[i].cls = "Grocery" /\ products[j].cls # "Grocery"

KnownTypes == {"Electronics", "Grocery", "Clothing"}

\* Every record has a type, and one of a known type has that type's keys.
well_formed(data) ==
    \A i \in 1..Len(data) :
       /\ "type" \in DOMAIN data[i]
       /\ data[i].type \in KnownTypes =>
             DOMAIN data[i] = keys_read(data[i].type) \cup {"type"}

\* C7: load_from_file of a well-formed document returns; afterwards the dict
\* has one entry per id, under each id of a record of a known type a product
\* that is the last such record's, and under every other id the product it
\* held; records of another type add and change nothing.
C7_LoadMerges ==
    [][ last'.op = "load" /\ file.kind = "json"
                          /\ well_formed(json_load(file.text)) =>
          LET data == json_load(file.text)
              known == {i \in 1..Len(data) : data[i].type \in KnownTypes}
              loaded == {data[i].product_id : i \in known}
              final(id) == CHOOSE i \in known :
                              /\ data[i].product_id = id
                              /\ \A j \in known :
                                    data[j].product_id = id => j <= i
          IN  /\ last'.err = NoError
              /\ dict_keys(products') = dict_keys(products) \cup loaded
              /\ Len(products') = Cardinality(dict_keys(products'))
              /\ \A id \in loaded :
                    to_dict(dict_getitem(products', id)) = data[final(id)]
              /\ \A id \in dict_keys(products) \ loaded :
                    dict_getitem(products', id) = dict_getitem(products, id)
      ]_vars

\* DocumentMixed was loaded into a dict of two products: P1 is the Grocery of
\* its last record and P2, of which the document has no record, is held.
C7_Witness ==
    /\ last.op = "load"
    /\ last.err = NoError
    /\ last.size = 2
    /\ file.text = json_dump(DocumentMixed)
    /\ Len(products) = 2
    /\ dict_keys(products) = {"P1", "P2"}
    /\ dict_getitem(products, "P1") = Grocery("P1", "Milk", 2, 1, 1)

\* C8: remove_expired_products deletes the Grocery products for which
\* is_expired() is true and nothing else: no expired Grocery is left, and
\* the other products are held as they were, in the order they had.
C8_RemovesExactlyExpired ==
    [][ last'.op = "remove_expired" =>
          LET expired(p) == p.cls = "Grocery" /\ is_expired(p, last'.today)
          IN  /\ last'.err = NoError
              /\ \A i \in 1..Len(products') : ~expired(products'[i])
              /\ products' = SelectSeq(products, LAMBDA p : ~expired(p))
      ]_vars

\* Of two products the call deleted one and left one that is no Grocery.
C8_Witness ==
    /\ last.op = "remove_expired"
    /\ last.size = 2
    /\ Len(products) = 1
    /\ products[1].cls # "Grocery"

\* C9: is_expired() is true exactly when the expiry date is a day before
\* today's; a Grocery that expires today is at no time of the day expired,
\* and remove_expired_products leaves it.
C9_ExpiredIffBeforeToday ==
    [][ last'.op = "remove_expired" =>
          \A i \in 1..Len(products) :
             products[i].cls = "Grocery" =>
                /\ is_expired(products[i], last'.today)
                      <=> products[i].expiry_date < last'.today.day
                /\ products[i].expiry_date = last'.today.day =>
                      products[i] \in {products'[j] : j \in 1..Len(products')}
      ]_vars

====
